---- MODULE Spec2Model ----
(***************************************************************************)
(* A model of the memory scanner (src/src/utils/memory_editor.py,          *)
(* class MemoryScanner) and of the DLL injector                            *)
(* (src/src/utils/dll_injector.py, class DLLInjector).                     *)
(*                                                                         *)
(* Addresses are scaled down: the scanner's four hard-coded regions are    *)
(* 32 bytes each here, the first one apart from the other three, which     *)
(* are adjacent, as in the source; every base is a multiple of 8, so the   *)
(* alignment of every value width is kept.  Target memory is sparse: a     *)
(* byte that `mem` does not mention is 0.                                  *)
(*                                                                         *)
(* A scan_worker thread takes one step per loop turn: the test of          *)
(* is_scanning and the work on the region or address that follows it are   *)
(* one step, as are attach_process and detach_process, which run on the    *)
(* UI thread from call to return.                                          *)
(*                                                                         *)
(* Specifications: Spec (the scanner, any operation at any time), FairSpec *)
(* (the same with the worker threads scheduled fairly), SeqSpec (the       *)
(* scanner with a caller that awaits each scan, over every scenario),      *)
(* EditSpec (that caller also reading and editing single values), UiSpec   *)
(* (that caller at the UI's address list), NanSpec (that caller scanning   *)
(* for NaN) and InjSpec (inject_dll and eject_dll, one API call per step,  *)
(* and list_loaded_modules).                                               *)
(***************************************************************************)
EXTENDS Integers, Sequences, FiniteSets, TLC

\* ------------------------------------------------------------ bounds
MaxScans == 2        \* scan requests that start a worker thread
MaxAttach == 2       \* attach_process calls that open a handle
MaxWrites == 1       \* writes the target process makes to its own memory
MaxInject == 2       \* inject_dll and eject_dll calls
MaxWatch == 1        \* rows of the UI's address list

VARIABLES
    process,          \* MemoryScanner.process: 0 is None, else the Pymem object (named by its handle)
    process_handle,   \* MemoryScanner.process_handle: 0 is None, else an OS handle
    found_addresses,  \* MemoryScanner.found_addresses: the list object it refers to (index into lists)
    is_scanning,      \* MemoryScanner.is_scanning
    lists,            \* the Python list objects created so far (the heap): Seq(Seq(address))
    workers,          \* the scan_worker threads started so far, in start order
    openHandles,      \* OS: the process handles that are open
    nAttach,          \* process handles attach_process has opened so far
    value_type,       \* the UI's value_type_var (combobox selection)
    mem,              \* target: address -> byte, for the bytes that are not 0
    mapped,           \* target: the committed, readable ranges of its address space
    plants,           \* target: the addresses where it keeps its values
    nWrites,          \* target writes made so far
    ret               \* what the last call that hands back a value, or that an exception left,
                      \* handed back (<<>>: no such call yet)

scanVars == <<process, process_handle, found_addresses, is_scanning, lists, workers,
              openHandles, nAttach, value_type, mem, mapped, plants, nWrites, ret>>

VARIABLES
    inj_pc,           \* inject_dll: the call it is about to make ("idle": not running)
    dll_path,         \* inject_dll argument: what kind of path it is
    process_id,       \* inject_dll argument: whether a process with this id exists
    h_process,        \* inject_dll local: 0 is NULL / not yet assigned
    arg_address,      \* inject_dll local: the buffer in the target, 0 is NULL
    h_thread,         \* inject_dll local: the remote thread's handle, 0 is NULL
    exit_code,        \* inject_dll local: exit_code.value
    retval,           \* what the last inject_dll call returned: <<>> before any return
    last_error,       \* DLLInjector.last_error
    injHandles,       \* OS: the handles the injector's process holds open
    buffers,          \* target: the buffers allocated in it and not freed
    written,          \* target: the buffers that hold the DLL path
    remote,           \* target: the remote threads created in it (handle -> thread)
    modules,          \* target: the DLLs loaded in it
    nInject,          \* inject_dll and eject_dll calls so far
    nObjects,         \* OS: handles and buffers handed out so far
    call,             \* the DLLInjector method called last ("" before any call)
    dll_name,         \* eject_dll argument: the module's name
    h_module,         \* eject_dll local: what GetModuleHandleW(dll_name) returned
    listed,           \* what list_loaded_modules returned since the last call: <<>> if not called
    localModules,     \* the injector's own process: the DLLs loaded in it
    sameBase          \* whether a DLL has the same base address in both processes

injVars == <<inj_pc, dll_path, process_id, h_process, arg_address, h_thread, exit_code,
             retval, last_error, injHandles, buffers, written, remote, modules, nInject,
             nObjects, call, dll_name, h_module, listed, localModules, sameBase>>

VARIABLES
    address_tree      \* UI: the rows of the address list, (address, value shown, type)

uiVars == <<address_tree>>

vars == <<scanVars, injVars, uiVars>>

\* ------------------------------------------------------------ value codec
ValueTypes == {"Byte", "2 Bytes", "4 Bytes", "Float", "Double"}

\* The values typed into the scan field.
Values == {99, 100}

\* step / len(pattern) of each type, as first_scan chooses them.
Width(t) ==
    CASE t = "4 Bytes" -> 4
      [] t = "Float" -> 4
      [] t = "Double" -> 8
      [] t = "2 Bytes" -> 2
      [] t = "Byte" -> 1
      [] OTHER -> 4

Pow256(i) == CASE i = 0 -> 1 [] i = 1 -> 256 [] i = 2 -> 65536 [] OTHER -> 16777216

\* struct.pack of an integer, little-endian two's complement, n <= 4 bytes.
IntBytes(v, n) == [i \in 1..n |-> (v \div Pow256(i - 1)) % 256]

\* float('nan'): the model's values are integers, and this one stands for NaN.
NaN == -1

\* struct.pack('<f', float(v)): the IEEE-754 single of v, little-endian.
FloatBytes(v) ==
    CASE v = 100 -> <<0, 0, 200, 66>>
      [] v = NaN -> <<0, 0, 192, 127>>
      [] v = 99 -> <<0, 0, 198, 66>>
      [] v = 300 -> <<0, 0, 150, 67>>
      [] OTHER -> <<0, 0, 0, 0>>

\* struct.pack('<d', float(v)): the IEEE-754 double of v, little-endian.
DoubleBytes(v) ==
    CASE v = 100 -> <<0, 0, 0, 0, 0, 0, 89, 64>>
      [] v = NaN -> <<0, 0, 0, 0, 0, 0, 248, 127>>
      [] v = 99 -> <<0, 0, 0, 0, 0, 192, 88, 64>>
      [] v = 300 -> <<0, 0, 0, 0, 0, 192, 114, 64>>
      [] OTHER -> <<0, 0, 0, 0, 0, 0, 0, 0>>

\* Whether struct.pack accepts v for the type's format ('B', '<h', '<i').
PackOK(v, t) ==
    CASE t = "Byte" -> v >= 0 /\ v <= 255
      [] t = "2 Bytes" -> v >= -32768 /\ v <= 32767
      [] OTHER -> TRUE

\* The pattern first_scan searches for.
Pattern(v, t) ==
    CASE t = "4 Bytes" -> IntBytes(v, 4)
      [] t = "Float" -> FloatBytes(v)
      [] t = "Double" -> DoubleBytes(v)
      [] t = "2 Bytes" -> IntBytes(v, 2)
      [] t = "Byte" -> IntBytes(v, 1)
      [] OTHER -> IntBytes(v, 4)

\* A decoded value: a number, or (a float outside the table) its bit pattern.
Num(v) == [num |-> v, bits |-> <<>>]
Raw(b) == [num |-> 0, bits |-> b]

\* pymem read_int: 4 bytes, little-endian, signed.
DecodeInt32(b) ==
    LET lo == b[1] + 256 * b[2] + 65536 * b[3]
    IN  Num(IF b[4] >= 128 THEN lo + (b[4] - 256) * 16777216 ELSE lo + b[4] * 16777216)

\* An integer of the type's own width (Byte unsigned, 2 Bytes and 4 Bytes signed).
DecodeOwn(b, t) ==
    CASE t = "Byte" -> Num(b[1])
      [] t = "2 Bytes" -> Num(IF b[2] >= 128 THEN b[1] + 256 * (b[2] - 256) ELSE b[1] + 256 * b[2])
      [] OTHER -> DecodeInt32(b)

FloatDomain == {0, 99, 100, 300, NaN}

\* The text typed into a value field: a scan value, or the new value of an edit.
Texts == {"99", "100", "300", "abc"}

\* The texts of the values the target keeps.
ScanTexts == {"99", "100"}

\* int(value) / float(value): <<>> when the conversion raises ValueError.
Parse(text) ==
    CASE text = "99" -> <<99>>
      [] text = "100" -> <<100>>
      [] text = "300" -> <<300>>
      [] OTHER -> <<>>

\* int(value) for the integer types, float(value) for Float and Double: float
\* accepts 'nan', int does not.
ParseAs(text, t) ==
    IF text = "nan"
    THEN IF t \in {"Float", "Double"} THEN <<NaN>> ELSE <<>>
    ELSE Parse(text)

\* pymem read_float.
DecodeFloat(b) ==
    IF \E v \in FloatDomain : FloatBytes(v) = b
    THEN Num(CHOOSE v \in FloatDomain : FloatBytes(v) = b)
    ELSE Raw(b)

\* pymem read_double.
DecodeDouble(b) ==
    IF \E v \in FloatDomain : DoubleBytes(v) = b
    THEN Num(CHOOSE v \in FloatDomain : DoubleBytes(v) = b)
    ELSE Raw(b)

\* ------------------------------------------------------------ target memory
ByteAt(a) == IF a \in DOMAIN mem THEN mem[a] ELSE 0

BytesAt(a, n) == [i \in 1..n |-> ByteAt(a + i - 1)]

\* The range [a, a + n) lies in one committed range (the ranges of `mapped` are
\* maximal: no two of them touch).
InMapped(a, n) == \E m \in mapped : a >= m.base /\ a + n <= m.base + m.size

\* The handle the scanner holds is an open OS handle.
HandleOpen == process_handle # 0 /\ process_handle \in openHandles

\* ReadProcessMemory succeeds: an open handle and the whole range committed.
CanRead(a, n) == HandleOpen /\ InMapped(a, n)

\* MemoryScanner.read_bytes: <<>> is None, <<bytes>> the bytes read.
read_bytes(a, n) == IF CanRead(a, n) THEN <<BytesAt(a, n)>> ELSE <<>>

\* MemoryScanner.read_int / read_float / read_double: <<>> is None.
read_int(a) == IF CanRead(a, 4) THEN <<DecodeInt32(BytesAt(a, 4))>> ELSE <<>>
read_float(a) == IF CanRead(a, 4) THEN <<DecodeFloat(BytesAt(a, 4))>> ELSE <<>>
read_double(a) == IF CanRead(a, 8) THEN <<DecodeDouble(BytesAt(a, 8))>> ELSE <<>>

\* The memory image with the bytes bs written at a.
WriteAt(m, a, bs) ==
    [x \in (DOMAIN m) \cup {a + i - 1 : i \in 1..Len(bs)} |->
        IF x >= a /\ x < a + Len(bs) THEN bs[x - a + 1] ELSE m[x]]

\* ------------------------------------------------------------ scanning
\* The hard-coded regions of first_scan's worker, (base, size), scaled down.
Regions == <<[base |-> 8, size |-> 32], [base |-> 64, size |-> 32],
             [base |-> 96, size |-> 32], [base |-> 128, size |-> 32]>>

RECURSIVE SortedSeq(_)
SortedSeq(S) ==
    IF S = {} THEN <<>>
    ELSE LET m == CHOOSE x \in S : \A y \in S : x <= y
         IN  <<m>> \o SortedSeq(S \ {m})

\* range(0, len(data) - len(pattern), step)
ScanOffsets(dataLen, patLen, step) ==
    {i \in 0..(dataLen - patLen - 1) : i % step = 0}

\* The addresses one pass over a region's data appends, in order.
RegionMatches(rg, data, v, t) ==
    LET pat == Pattern(v, t)
        hit(i) == [k \in 1..Len(pat) |-> data[i + k]] = pat
    IN  SortedSeq({rg.base + i : i \in {j \in ScanOffsets(Len(data), Len(pat), Width(t)) : hit(j)}})

\* The value next_scan's worker reads at an address: read_int for "4 Bytes" and for
\* every type its if-chain does not name.
ReadCurrent(a, t) ==
    CASE t = "4 Bytes" -> read_int(a)
      [] t = "Float" -> read_float(a)
      [] t = "Double" -> read_double(a)
      [] OTHER -> read_int(a)

\* current is not None and current == target (a float NaN equals nothing, itself
\* included)
StillMatches(a, v, t) ==
    LET current == ReadCurrent(a, t)
    IN  /\ current # <<>>
        /\ current[1] = Num(v)
        /\ ~(t \in {"Float", "Double"} /\ v = NaN)

Running(w) == w.pc # "done"

RunningWorkers == {k \in 1..Len(workers) : Running(workers[k])}

Contents == lists[found_addresses]

\* A thread object as started by first_scan / next_scan, with the history the
\* properties speak of: R (found_addresses when the scan was requested), mine (the
\* addresses this worker recorded), result (found_addresses as the worker left it),
\* broke (it left its loop on the flag), stopped (stop_scan was called while it
\* ran), solo (no other scan was requested or running during its run), closedRead
\* (it read through a handle that was not open), writes (the target's writes made
\* before the scan was requested).  value is int(value) / float(value) of the text
\* the scan was requested with, parsed whether that conversion succeeds, callback
\* whether the scan was requested with a callback (it defaults to None), calls the
\* progress values the worker has passed to it (the count passed with the last one
\* is Len(result)), exited (the target exited while it ran), goneRead (it read
\* after that).
NewWorker(kind, text, t, new, solo, cb) ==
    [kind |-> kind, pc |-> IF kind = "first" THEN "loop" ELSE "begin", i |-> 1,
     value |-> IF ParseAs(text, t) = <<>> THEN 0 ELSE ParseAs(text, t)[1],
     parsed |-> ParseAs(text, t) # <<>>, vtype |-> t, iter |-> 0, new |-> new,
     R |-> IF kind = "first" THEN <<>> ELSE Contents, mine |-> <<>>, result |-> <<>>,
     broke |-> FALSE, stopped |-> FALSE, solo |-> solo, closedRead |-> FALSE,
     writes |-> nWrites, callback |-> cb, calls |-> <<>>,
     exited |-> FALSE, goneRead |-> FALSE]

\* int((scanned_size / total_size) * 100) after n regions were searched.
Progress(n) ==
    LET size(j) == Regions[j].size
        Sum[j \in 0..Len(Regions)] == IF j = 0 THEN 0 ELSE Sum[j - 1] + size(j)
    IN  (Sum[n] * 100) \div Sum[Len(Regions)]

Overlapped(ws) ==
    [k \in 1..Len(ws) |-> IF Running(ws[k]) THEN [ws[k] EXCEPT !.solo = FALSE] ELSE ws[k]]

\* ------------------------------------------------------------ attach / detach
\* attach_process: Pymem(process_name) opens a new handle, or raises.
attach_process(ok) ==
    /\ nAttach < MaxAttach
    /\ IF ok
       THEN LET h == nAttach + 1
            IN  /\ nAttach' = h
                /\ openHandles' = openHandles \cup {h}
                /\ process' = h
                /\ process_handle' = h
       ELSE UNCHANGED <<nAttach, openHandles, process, process_handle>>
    /\ UNCHANGED <<found_addresses, is_scanning, lists, workers, value_type, mem, mapped,
                   plants, nWrites, ret, injVars, uiVars>>

\* What a call handed back: the method, whether an exception left it, the bool a
\* write returned, the value a read returned (<<>> is None).
Outcome(op, raised, ok, value) == <<[op |-> op, raised |-> raised, ok |-> ok, value |-> value]>>

\* attach_process with Pymem(process_name) called outside any try: its exception
\* leaves attach_process.
attach_process_ret_NoTry(ok) ==
    /\ nAttach < MaxAttach
    /\ ok => mapped # {}
    /\ IF ok
       THEN LET h == nAttach + 1
            IN  /\ nAttach' = h
                /\ openHandles' = openHandles \cup {h}
                /\ process' = h
                /\ process_handle' = h
                /\ ret' = Outcome("attach_process", FALSE, TRUE, <<>>)
       ELSE /\ ret' = Outcome("attach_process", TRUE, FALSE, <<>>)
            /\ UNCHANGED <<nAttach, openHandles, process, process_handle>>
    /\ UNCHANGED <<found_addresses, is_scanning, lists, workers, value_type, mem, mapped,
                   plants, nWrites, injVars, uiVars>>

\* attach_process, with the bool it returns kept in ret: True after Pymem opened a
\* handle, False from the except branch, which is reached before self.process is
\* assigned; Pymem finds no process once the target has exited.
attach_process_ret(ok) ==
    /\ nAttach < MaxAttach
    /\ ok => mapped # {}
    /\ IF ok
       THEN LET h == nAttach + 1
            IN  /\ nAttach' = h
                /\ openHandles' = openHandles \cup {h}
                /\ process' = h
                /\ process_handle' = h
       ELSE UNCHANGED <<nAttach, openHandles, process, process_handle>>
    /\ ret' = Outcome("attach_process", FALSE, ok, <<>>)
    /\ UNCHANGED <<found_addresses, is_scanning, lists, workers, value_type, mem, mapped,
                   plants, nWrites, injVars, uiVars>>

\* What self.process.close_process() can do: close the handle, or raise.
CloseOutcomes == {"ok", "raise"}

\* detach_process with the call of close_process outside any try: an exception
\* leaves detach_process, before the two fields are reset.
detach_process_NoTry(o) ==
    /\ IF process # 0
       THEN IF o = "ok"
            THEN /\ openHandles' = openHandles \ {process}
                 /\ process' = 0
                 /\ process_handle' = 0
                 /\ UNCHANGED ret
            ELSE /\ ret' = Outcome("detach_process", TRUE, FALSE, <<>>)
                 /\ UNCHANGED <<openHandles, process, process_handle>>
       ELSE /\ o = "ok"
            /\ UNCHANGED <<openHandles, process, process_handle, ret>>
    /\ UNCHANGED <<found_addresses, is_scanning, lists, workers, nAttach, value_type, mem,
                   mapped, plants, nWrites, injVars, uiVars>>

\* detach_process; o is what close_process does, an exception of which is swallowed
\* by the bare except (close_process is not called when self.process is None).
detach_process(o) ==
    /\ IF process # 0
       THEN /\ openHandles' = IF o = "ok" THEN openHandles \ {process} ELSE openHandles
            /\ process' = 0
            /\ process_handle' = 0
       ELSE /\ o = "ok"
            /\ UNCHANGED <<openHandles, process, process_handle>>
    /\ UNCHANGED <<found_addresses, is_scanning, lists, workers, nAttach, value_type, mem,
                   mapped, plants, nWrites, ret, injVars, uiVars>>

\* ------------------------------------------------------------ scan requests
\* first_scan(value, value_type) and next_scan(value, value_type), called without a
\* callback.
first_scan(text) ==
    /\ Len(workers) < MaxScans
    /\ IF process = 0
       THEN UNCHANGED <<found_addresses, is_scanning, lists, workers>>
       ELSE /\ lists' = Append(lists, <<>>)
            /\ found_addresses' = Len(lists) + 1
            /\ is_scanning' = TRUE
            /\ workers' = Append(Overlapped(workers),
                                 NewWorker("first", text, value_type, 0, RunningWorkers = {},
                                           FALSE))
    /\ UNCHANGED <<process, process_handle, openHandles, nAttach, value_type, mem, mapped,
                   plants, nWrites, ret, injVars, uiVars>>

next_scan(text) ==
    /\ Len(workers) < MaxScans
    /\ IF process = 0 \/ Contents = <<>>
       THEN UNCHANGED <<found_addresses, is_scanning, lists, workers>>
       ELSE /\ lists' = Append(lists, <<>>)
            /\ is_scanning' = TRUE
            /\ workers' = Append(Overlapped(workers),
                                 NewWorker("next", text, value_type, Len(lists) + 1,
                                           RunningWorkers = {}, FALSE))
            /\ UNCHANGED found_addresses
    /\ UNCHANGED <<process, process_handle, openHandles, nAttach, value_type, mem, mapped,
                   plants, nWrites, ret, injVars, uiVars>>

\* What a scan request handed back: the list object (0 is a new list that nothing
\* else refers to) and the items it holds at the return.
Returned(l, items) == <<[list |-> l, items |-> items]>>

\* first_scan(value, value_type, callback), with the list it returns kept in ret:
\* a new [] when no process is attached, else self.found_addresses, the list the
\* worker appends to.
first_scan_ret(text) ==
    /\ Len(workers) < MaxScans
    /\ IF process = 0
       THEN /\ ret' = Outcome("first_scan", FALSE, FALSE, Returned(0, <<>>))
            /\ UNCHANGED <<found_addresses, is_scanning, lists, workers>>
       ELSE /\ lists' = Append(lists, <<>>)
            /\ found_addresses' = Len(lists) + 1
            /\ is_scanning' = TRUE
            /\ workers' = Append(Overlapped(workers),
                                 NewWorker("first", text, value_type, 0, RunningWorkers = {},
                                           TRUE))
            /\ ret' = Outcome("first_scan", FALSE, FALSE, Returned(Len(lists) + 1, <<>>))
    /\ UNCHANGED <<process, process_handle, openHandles, nAttach, value_type, mem, mapped,
                   plants, nWrites, injVars, uiVars>>

\* next_scan without `or not self.found_addresses` in its guard: a narrowing of an
\* empty list is started like any other.
next_scan_ret_NoEmptyGuard(text) ==
    /\ Len(workers) < MaxScans
    /\ IF process = 0
       THEN /\ ret' = Outcome("next_scan", FALSE, FALSE, Returned(0, <<>>))
            /\ UNCHANGED <<found_addresses, is_scanning, lists, workers>>
       ELSE /\ lists' = Append(lists, <<>>)
            /\ is_scanning' = TRUE
            /\ workers' = Append(Overlapped(workers),
                                 NewWorker("next", text, value_type, Len(lists) + 1,
                                           RunningWorkers = {}, TRUE))
            /\ ret' = Outcome("next_scan", FALSE, FALSE, Returned(found_addresses, Contents))
            /\ UNCHANGED found_addresses
    /\ UNCHANGED <<process, process_handle, openHandles, nAttach, value_type, mem, mapped,
                   plants, nWrites, injVars, uiVars>>

\* next_scan(value, value_type, callback), with the list it returns kept in ret: a
\* new [] when no process is attached or self.found_addresses is empty, else
\* self.found_addresses, the list being narrowed.
next_scan_ret(text) ==
    /\ Len(workers) < MaxScans
    /\ IF process = 0 \/ Contents = <<>>
       THEN /\ ret' = Outcome("next_scan", FALSE, FALSE, Returned(0, <<>>))
            /\ UNCHANGED <<found_addresses, is_scanning, lists, workers>>
       ELSE /\ lists' = Append(lists, <<>>)
            /\ is_scanning' = TRUE
            /\ workers' = Append(Overlapped(workers),
                                 NewWorker("next", text, value_type, Len(lists) + 1,
                                           RunningWorkers = {}, TRUE))
            /\ ret' = Outcome("next_scan", FALSE, FALSE, Returned(found_addresses, Contents))
            /\ UNCHANGED found_addresses
    /\ UNCHANGED <<process, process_handle, openHandles, nAttach, value_type, mem, mapped,
                   plants, nWrites, injVars, uiVars>>

stop_scan ==
    /\ is_scanning' = FALSE
    /\ workers' = [k \in 1..Len(workers) |->
                     IF Running(workers[k]) THEN [workers[k] EXCEPT !.stopped = TRUE]
                     ELSE workers[k]]
    /\ UNCHANGED <<process, process_handle, found_addresses, lists, openHandles, nAttach,
                   value_type, mem, mapped, plants, nWrites, ret, injVars, uiVars>>

\* ------------------------------------------------------------ first_scan's worker
\* The loop of first_scan's worker with `break` in the place of `continue` after
\* `if not data`: the first region that cannot be read ends the scan.
FirstRegionStopsOnUnreadable(k) ==
    LET w == workers[k]
        rg == Regions[w.i]
        data == read_bytes(rg.base, rg.size)
        searched == data # <<>> /\ w.parsed /\ PackOK(w.value, w.vtype)
        hits == IF searched THEN RegionMatches(rg, data[1], w.value, w.vtype) ELSE <<>>
    IN  /\ k <= Len(workers)
        /\ w.kind = "first" /\ w.pc = "loop"
        /\ IF w.i > Len(Regions)
           THEN /\ workers' = [workers EXCEPT ![k] = [w EXCEPT !.pc = "finally"]]
                /\ UNCHANGED lists
           ELSE IF ~is_scanning
           THEN /\ workers' = [workers EXCEPT ![k] = [w EXCEPT !.pc = "finally", !.broke = TRUE]]
                /\ UNCHANGED lists
           ELSE IF data = <<>>
           THEN /\ workers' = [workers EXCEPT ![k] =
                                 [w EXCEPT !.pc = "finally", !.closedRead = @ \/ ~HandleOpen,
                                           !.goneRead = @ \/ w.exited]]
                /\ UNCHANGED lists
           ELSE /\ lists' = [lists EXCEPT ![found_addresses] = @ \o hits]
                /\ workers' = [workers EXCEPT ![k] =
                                 [w EXCEPT !.i = w.i + 1, !.mine = @ \o hits,
                                           !.closedRead = @ \/ ~HandleOpen,
                                           !.goneRead = @ \/ w.exited,
                                           !.calls = IF searched /\ w.callback
                                                     THEN Append(@, Progress(Len(@) + 1))
                                                     ELSE @]]
        /\ UNCHANGED <<process, process_handle, found_addresses, is_scanning, openHandles,
                       nAttach, value_type, mem, mapped, plants, nWrites, ret, injVars, uiVars>>

\* One turn of `for base_addr, size in regions`: the loop ends after the last region;
\* else `if not self.is_scanning: break`; else read_bytes, pack the pattern and
\* append every match to self.found_addresses; a region that cannot be read, or an
\* exception of int(value), float(value) or struct.pack, goes on to the next region.
FirstRegion(k) ==
    LET w == workers[k]
        rg == Regions[w.i]
        data == read_bytes(rg.base, rg.size)
        searched == data # <<>> /\ w.parsed /\ PackOK(w.value, w.vtype)
        hits == IF searched THEN RegionMatches(rg, data[1], w.value, w.vtype) ELSE <<>>
    IN  /\ k <= Len(workers)
        /\ w.kind = "first" /\ w.pc = "loop"
        /\ IF w.i > Len(Regions)
           THEN /\ workers' = [workers EXCEPT ![k] = [w EXCEPT !.pc = "finally"]]
                /\ UNCHANGED lists
           ELSE IF ~is_scanning
           THEN /\ workers' = [workers EXCEPT ![k] = [w EXCEPT !.pc = "finally", !.broke = TRUE]]
                /\ UNCHANGED lists
           ELSE /\ lists' = [lists EXCEPT ![found_addresses] = @ \o hits]
                /\ workers' = [workers EXCEPT ![k] =
                                 [w EXCEPT !.i = w.i + 1, !.mine = @ \o hits,
                                           !.closedRead = @ \/ ~HandleOpen,
                                           !.goneRead = @ \/ w.exited,
                                           !.calls = IF searched /\ w.callback
                                                     THEN Append(@, Progress(Len(@) + 1))
                                                     ELSE @]]
        /\ UNCHANGED <<process, process_handle, found_addresses, is_scanning, openHandles,
                       nAttach, value_type, mem, mapped, plants, nWrites, ret, injVars, uiVars>>

\* A finally block that leaves is_scanning as it is.
FirstFinallyKeepsFlag(k) ==
    LET w == workers[k]
    IN  /\ k <= Len(workers)
        /\ w.kind = "first" /\ w.pc = "finally"
        /\ workers' = [workers EXCEPT ![k] =
                         [w EXCEPT !.pc = "done", !.result = Contents,
                                   !.calls = IF w.callback THEN Append(@, 100) ELSE @]]
        /\ UNCHANGED <<process, process_handle, found_addresses, is_scanning, lists,
                       openHandles, nAttach, value_type, mem, mapped, plants, nWrites,
                       ret, injVars, uiVars>>

\* A finally block that resets the flag and does not call the callback.
FirstFinallyNoCallback(k) ==
    LET w == workers[k]
    IN  /\ k <= Len(workers)
        /\ w.kind = "first" /\ w.pc = "finally"
        /\ is_scanning' = FALSE
        /\ workers' = [workers EXCEPT ![k] = [w EXCEPT !.pc = "done", !.result = Contents]]
        /\ UNCHANGED <<process, process_handle, found_addresses, lists, openHandles, nAttach,
                       value_type, mem, mapped, plants, nWrites, ret, injVars, uiVars>>

\* finally: self.is_scanning = False; callback(100, len(self.found_addresses))
FirstFinally(k) ==
    LET w == workers[k]
    IN  /\ k <= Len(workers)
        /\ w.kind = "first" /\ w.pc = "finally"
        /\ is_scanning' = FALSE
        /\ workers' = [workers EXCEPT ![k] =
                         [w EXCEPT !.pc = "done", !.result = Contents,
                                   !.calls = IF w.callback THEN Append(@, 100) ELSE @]]
        /\ UNCHANGED <<process, process_handle, found_addresses, lists, openHandles, nAttach,
                       value_type, mem, mapped, plants, nWrites, ret, injVars, uiVars>>

\* ------------------------------------------------------------ next_scan's worker
\* The thread starts: enumerate(self.found_addresses) binds the list it walks.
NextBegin(k) ==
    LET w == workers[k]
    IN  /\ k <= Len(workers)
        /\ w.kind = "next" /\ w.pc = "begin"
        /\ workers' = [workers EXCEPT ![k] = [w EXCEPT !.pc = "loop", !.iter = found_addresses]]
        /\ UNCHANGED <<process, process_handle, found_addresses, is_scanning, lists,
                       openHandles, nAttach, value_type, mem, mapped, plants, nWrites, ret, injVars, uiVars>>

\* One turn of `for idx, address in enumerate(...)`: the loop ends with the list
\* (as long as it is now); else `if not self.is_scanning: break`; else read the
\* current value and keep the address if it equals the target; an exception of
\* int(value) or float(value) is passed over; `if idx % 1000 == 0` holds for the
\* first address only, the lists here being short.
NextAddress(k) ==
    LET w == workers[k]
        a == lists[w.iter][w.i]
        keep == IF w.parsed /\ StillMatches(a, w.value, w.vtype) THEN <<a>> ELSE <<>>
    IN  /\ k <= Len(workers)
        /\ w.kind = "next" /\ w.pc = "loop"
        /\ IF w.i > Len(lists[w.iter])
           THEN /\ workers' = [workers EXCEPT ![k] = [w EXCEPT !.pc = "store"]]
                /\ UNCHANGED lists
           ELSE IF ~is_scanning
           THEN /\ workers' = [workers EXCEPT ![k] = [w EXCEPT !.pc = "store", !.broke = TRUE]]
                /\ UNCHANGED lists
           ELSE /\ lists' = [lists EXCEPT ![w.new] = @ \o keep]
                /\ workers' = [workers EXCEPT ![k] =
                                 [w EXCEPT !.i = w.i + 1, !.mine = @ \o keep,
                                           !.closedRead = @ \/ ~HandleOpen,
                                           !.goneRead = @ \/ w.exited,
                                           !.calls = IF w.i = 1 /\ w.callback
                                                     THEN Append(@, 0)
                                                     ELSE @]]
        /\ UNCHANGED <<process, process_handle, found_addresses, is_scanning, openHandles,
                       nAttach, value_type, mem, mapped, plants, nWrites, ret, injVars, uiVars>>

\* self.found_addresses = new_addresses; self.is_scanning = False;
\* callback(100, len(new_addresses))
NextStore(k) ==
    LET w == workers[k]
    IN  /\ k <= Len(workers)
        /\ w.kind = "next" /\ w.pc = "store"
        /\ found_addresses' = w.new
        /\ is_scanning' = FALSE
        /\ workers' = [workers EXCEPT ![k] =
                         [w EXCEPT !.pc = "done", !.result = lists[w.new],
                                   !.calls = IF w.callback THEN Append(@, 100) ELSE @]]
        /\ UNCHANGED <<process, process_handle, lists, openHandles, nAttach, value_type, mem,
                       mapped, plants, nWrites, ret, injVars, uiVars>>

\* A step of some scan_worker thread.
WorkerStep ==
    \E k \in 1..MaxScans :
        \/ FirstRegion(k)
        \/ FirstFinally(k)
        \/ NextBegin(k)
        \/ NextAddress(k)
        \/ NextStore(k)

\* ------------------------------------------------------------ the target process
\* The target changes one of its values to another value of the same type.
TargetWrite(p, v) ==
    /\ nWrites < MaxWrites
    /\ p \in plants
    /\ PackOK(v, value_type)
    /\ Pattern(v, value_type) # BytesAt(p, Width(value_type))
    /\ mem' = WriteAt(mem, p, Pattern(v, value_type))
    /\ nWrites' = nWrites + 1
    /\ UNCHANGED <<process, process_handle, found_addresses, is_scanning, lists, workers,
                   openHandles, nAttach, value_type, mapped, plants, ret, injVars, uiVars>>

\* The target frees one of its committed ranges.
TargetFree(m) ==
    /\ m \in mapped
    /\ mapped' = mapped \ {m}
    /\ UNCHANGED <<process, process_handle, found_addresses, is_scanning, lists, workers,
                   openHandles, nAttach, value_type, mem, plants, nWrites, ret, injVars, uiVars>>

\* The target exits: nothing of its address space can be read or written any more;
\* the handle the scanner holds stays open.
TargetExit ==
    /\ mapped # {}
    /\ mapped' = {}
    /\ workers' = [k \in 1..Len(workers) |->
                     IF Running(workers[k]) THEN [workers[k] EXCEPT !.exited = TRUE]
                     ELSE workers[k]]
    /\ UNCHANGED <<process, process_handle, found_addresses, is_scanning, lists,
                   openHandles, nAttach, value_type, mem, plants, nWrites, ret, injVars, uiVars>>

\* ------------------------------------------------------------ reading and editing a value
\* The addresses get_address_value and set_address_value are called with: one in
\* committed memory, one in no committed range.
EditAddresses == {16, 200}

\* get_address_value(address, value_type)
get_address_value(a) ==
    /\ ret' = Outcome("get_address_value", FALSE, FALSE,
                      CASE value_type = "4 Bytes" -> read_int(a)
                        [] value_type = "Float" -> read_float(a)
                        [] value_type = "Double" -> read_double(a)
                        [] OTHER -> read_int(a))
    /\ UNCHANGED <<process, process_handle, found_addresses, is_scanning, lists, workers,
                   openHandles, nAttach, value_type, mem, mapped, plants, nWrites, injVars, uiVars>>

\* Every value stored with write_int, whatever the type.
WrittenBytesAsInt(v, t) == IntBytes(v, 4)

\* What set_address_value handed back, with the address and the text it was called
\* with.
SetOutcome(raised, ok, a, text) ==
    <<[op |-> "set_address_value", raised |-> raised, ok |-> ok, value |-> <<>>,
       at |-> a, text |-> text]>>

\* The bytes write_int / write_float / write_double store for v.
WrittenBytes(v, t) ==
    CASE t = "Float" -> FloatBytes(v)
      [] t = "Double" -> DoubleBytes(v)
      [] OTHER -> IntBytes(v, 4)

\* set_address_value(address, value, value_type): int(value) or float(value) is
\* evaluated in set_address_value itself, outside any try; write_* returns False
\* when WriteProcessMemory fails.
WriteValue(a, text, t) ==
    LET bs == WrittenBytes(ParseAs(text, t)[1], t)
    IN  IF ParseAs(text, t) = <<>>
        THEN /\ ret' = SetOutcome(TRUE, FALSE, a, text)
             /\ UNCHANGED mem
        ELSE IF CanRead(a, Len(bs))
        THEN /\ ret' = SetOutcome(FALSE, TRUE, a, text)
             /\ mem' = WriteAt(mem, a, bs)
        ELSE /\ ret' = SetOutcome(FALSE, FALSE, a, text)
             /\ UNCHANGED mem

set_address_value(a, text) ==
    /\ WriteValue(a, text, value_type)
    /\ UNCHANGED <<process, process_handle, found_addresses, is_scanning, lists, workers,
                       openHandles, nAttach, value_type, mapped, plants, nWrites, injVars, uiVars>>

\* ------------------------------------------------------------ the UI's address list
\* The value column of a row: the value get_address_value returned when the row
\* was added (<<>> is None), or the text of the last edit that succeeded.
Shown(text, read) == [text |-> text, read |-> read]

\* add_to_address_list: the selected found address, the value read there now and
\* the selected type become a new row.
add_to_address_list(idx) ==
    LET a == Contents[idx]
        current_value == CASE value_type = "4 Bytes" -> read_int(a)
                           [] value_type = "Float" -> read_float(a)
                           [] value_type = "Double" -> read_double(a)
                           [] OTHER -> read_int(a)
    IN  /\ Len(address_tree) < MaxWatch
        /\ idx \in 1..Len(Contents)
        /\ ret' = Outcome("get_address_value", FALSE, FALSE, current_value)
        /\ address_tree' = Append(address_tree,
                                  [address |-> a, value |-> Shown("", current_value),
                                   type |-> value_type])
        /\ UNCHANGED <<process, process_handle, found_addresses, is_scanning, lists, workers,
                       openHandles, nAttach, value_type, mem, mapped, plants, nWrites,
                       injVars>>

\* save_value with the row updated whatever set_address_value returns.
save_value_AlwaysUpdates(item, text) ==
    /\ item \in 1..Len(address_tree)
    /\ WriteValue(address_tree[item].address, text, address_tree[item].type)
    /\ address_tree' = IF ret'[1].raised THEN address_tree
                       ELSE [address_tree EXCEPT ![item].value = Shown(text, <<>>)]
    /\ UNCHANGED <<process, process_handle, found_addresses, is_scanning, lists, workers,
                   openHandles, nAttach, value_type, mapped, plants, nWrites, injVars>>

\* edit_address_value.save_value for the row `item`: set_address_value with the
\* text of the entry; the row takes the text when it returns True; False, and an
\* exception (caught by save_value's own except), leave the row alone.
save_value(item, text) ==
    /\ item \in 1..Len(address_tree)
    /\ WriteValue(address_tree[item].address, text, address_tree[item].type)
    /\ address_tree' = IF ~ret'[1].raised /\ ret'[1].ok
                       THEN [address_tree EXCEPT ![item].value = Shown(text, <<>>)]
                       ELSE address_tree
    /\ UNCHANGED <<process, process_handle, found_addresses, is_scanning, lists, workers,
                   openHandles, nAttach, value_type, mapped, plants, nWrites, injVars>>

\* ------------------------------------------------------------ inject_dll
\* What dll_path names: no file; a file that is not a .dll; a .dll whose path is
\* ASCII; a .dll whose path has a character outside ASCII.
PathKinds == {"missing", "not_dll", "ascii", "non_ascii"}

\* Whether a process with the given id exists.
PidKinds == {"exists", "none"}

\* What a Windows API call made through ctypes can do: succeed, return 0 / NULL,
\* or raise (ctypes turns a fault inside the call into OSError).
Outcomes == {"ok", "fail", "raise"}

\* The calls whose return value inject_dll ignores.
UncheckedOutcomes == {"ok", "raise"}

\* A module's base address: the module, and the address space the address belongs
\* to ("shared" when the DLL lies at the same address in both processes).
NullBase == [name |-> "", space |-> "null"]
LocalBase(n) == [name |-> n, space |-> IF sameBase THEN "shared" ELSE "injector"]
TargetBase(n) == [name |-> n, space |-> IF sameBase THEN "shared" ELSE "target"]

\* The handles and buffers the OS can have handed out.
ObjectIds == 1..(3 * MaxInject)

injArgs == <<dll_path, process_id, dll_name, nInject, call>>
injRest == <<h_module, listed, localModules, sameBase>>
injLocals == <<h_process, arg_address, h_thread, exit_code>>
injTarget == <<buffers, written, remote, modules>>

\* return success, message
Return(success, message) ==
    /\ retval' = <<[success |-> success, message |-> message]>>
    /\ inj_pc' = "idle"

\* except Exception as e: self.last_error = str(e); return False, ...
Except ==
    /\ last_error' = "exception"
    /\ Return(FALSE, "Injection error")

\* inject_dll without the test of the extension.
inject_dll_AnyExtension(pid, path) ==
    /\ inj_pc = "idle"
    /\ nInject < MaxInject
    /\ nInject' = nInject + 1
    /\ call' = "inject_dll"
    /\ process_id' = pid
    /\ dll_path' = path
    /\ h_process' = 0 /\ arg_address' = 0 /\ h_thread' = 0 /\ exit_code' = "zero"
    /\ listed' = <<>>
    /\ IF path = "missing" THEN Return(FALSE, "DLL not found")
       ELSE inj_pc' = "OpenProcess" /\ retval' = <<>>
    /\ UNCHANGED <<dll_name, h_module, localModules, sameBase, last_error, injHandles,
                   injTarget, nObjects, scanVars, uiVars>>

\* The call and the validation of dll_path.
inject_dll(pid, path) ==
    /\ inj_pc = "idle"
    /\ nInject < MaxInject
    /\ nInject' = nInject + 1
    /\ call' = "inject_dll"
    /\ process_id' = pid
    /\ dll_path' = path
    /\ h_process' = 0 /\ arg_address' = 0 /\ h_thread' = 0 /\ exit_code' = "zero"
    /\ listed' = <<>>
    /\ IF path = "missing" THEN Return(FALSE, "DLL not found")
       ELSE IF path = "not_dll" THEN Return(FALSE, "File must be a .dll")
       ELSE inj_pc' = "OpenProcess" /\ retval' = <<>>
    /\ UNCHANGED <<dll_name, h_module, localModules, sameBase, last_error, injHandles,
                   injTarget, nObjects, scanVars, uiVars>>

OpenProcess(o) ==
    /\ inj_pc = "OpenProcess"
    /\ o = "ok" => process_id = "exists"
    /\ \/ /\ o = "ok"
          /\ h_process' = nObjects + 1
          /\ nObjects' = nObjects + 1
          /\ injHandles' = injHandles \cup {nObjects + 1}
          /\ inj_pc' = "GetModuleHandleW"
          /\ UNCHANGED <<retval, last_error>>
       \/ /\ o = "fail"
          /\ Return(FALSE, "Failed to open process")
          /\ UNCHANGED <<h_process, nObjects, injHandles, last_error>>
       \/ /\ o = "raise"
          /\ Except
          /\ UNCHANGED <<h_process, nObjects, injHandles>>
    /\ UNCHANGED <<injArgs, injRest, arg_address, h_thread, exit_code, injTarget, scanVars, uiVars>>

\* A lookup in the injector's own process (kernel32.dll, LoadLibraryA): on NULL the
\* process handle is closed.
Lookup(at, o, then, message) ==
    /\ inj_pc = at
    /\ \/ /\ o = "ok"
          /\ inj_pc' = then
          /\ UNCHANGED <<retval, last_error, injHandles>>
       \/ /\ o = "fail"
          /\ injHandles' = injHandles \ {h_process}
          /\ Return(FALSE, message)
          /\ UNCHANGED last_error
       \/ /\ o = "raise"
          /\ Except
          /\ UNCHANGED injHandles
    /\ UNCHANGED <<injArgs, injRest, injLocals, injTarget, nObjects, scanVars, uiVars>>

GetModuleHandleW(o) ==
    Lookup("GetModuleHandleW", o, "GetProcAddress", "Failed to get kernel32.dll handle")

GetProcAddress(o) ==
    Lookup("GetProcAddress", o, "encode", "Failed to get LoadLibraryA address")

\* dll_path.encode('ascii') + b'\x00'
Encode ==
    /\ inj_pc = "encode"
    /\ IF dll_path = "ascii"
       THEN inj_pc' = "VirtualAllocEx" /\ UNCHANGED <<retval, last_error>>
       ELSE Except
    /\ UNCHANGED <<injArgs, injRest, injLocals, injHandles, injTarget, nObjects, scanVars, uiVars>>

VirtualAllocEx(o) ==
    /\ inj_pc = "VirtualAllocEx"
    /\ \/ /\ o = "ok"
          /\ arg_address' = nObjects + 1
          /\ nObjects' = nObjects + 1
          /\ buffers' = buffers \cup {nObjects + 1}
          /\ inj_pc' = "WriteProcessMemory"
          /\ UNCHANGED <<retval, last_error, injHandles>>
       \/ /\ o = "fail"
          /\ injHandles' = injHandles \ {h_process}
          /\ Return(FALSE, "Failed to allocate memory in target process")
          /\ UNCHANGED <<arg_address, nObjects, buffers, last_error>>
       \/ /\ o = "raise"
          /\ Except
          /\ UNCHANGED <<arg_address, nObjects, buffers, injHandles>>
    /\ UNCHANGED <<injArgs, injRest, h_process, h_thread, exit_code, written, remote, modules,
                   scanVars, uiVars>>

WriteProcessMemory(o) ==
    /\ inj_pc = "WriteProcessMemory"
    /\ \/ /\ o = "ok"
          /\ written' = written \cup {arg_address}
          /\ inj_pc' = "CreateRemoteThread"
          /\ UNCHANGED <<retval, last_error, injHandles, buffers>>
       \/ /\ o = "fail"
          /\ buffers' = buffers \ {arg_address}
          /\ injHandles' = injHandles \ {h_process}
          /\ Return(FALSE, "Failed to write DLL path to target process")
          /\ UNCHANGED <<written, last_error>>
       \/ /\ o = "raise"
          /\ Except
          /\ UNCHANGED <<written, injHandles, buffers>>
    /\ UNCHANGED <<injArgs, injRest, injLocals, remote, modules, nObjects, scanVars, uiVars>>

CreateRemoteThread(o) ==
    /\ inj_pc = "CreateRemoteThread"
    /\ \/ /\ o = "ok"
          /\ h_thread' = nObjects + 1
          /\ nObjects' = nObjects + 1
          /\ injHandles' = injHandles \cup {nObjects + 1}
          /\ remote' = [h \in DOMAIN remote \cup {nObjects + 1} |->
                          IF h = nObjects + 1
                          THEN [kind |-> "load", state |-> "running", arg |-> arg_address,
                                exit |-> "zero", atWait |-> "none"]
                          ELSE remote[h]]
          /\ inj_pc' = "WaitForSingleObject"
          /\ UNCHANGED <<retval, last_error, buffers>>
       \/ /\ o = "fail"
          /\ buffers' = buffers \ {arg_address}
          /\ injHandles' = injHandles \ {h_process}
          /\ Return(FALSE, "Failed to create remote thread")
          /\ UNCHANGED <<h_thread, nObjects, remote, last_error>>
       \/ /\ o = "raise"
          /\ Except
          /\ UNCHANGED <<h_thread, nObjects, remote, injHandles, buffers>>
    /\ UNCHANGED <<injArgs, injRest, h_process, arg_address, exit_code, written, modules, scanVars, uiVars>>

\* WaitForSingleObject(h_thread, 5000): it returns when the thread has finished or
\* when the five seconds are over; its result is not looked at.  (atWait keeps what
\* the thread was doing when the wait ended.)
WaitForSingleObject(o) ==
    /\ inj_pc = "WaitForSingleObject"
    /\ IF o = "ok"
       THEN /\ inj_pc' = "GetExitCodeThread"
            /\ remote' = [remote EXCEPT ![h_thread].atWait = remote[h_thread].state]
            /\ UNCHANGED <<retval, last_error>>
       ELSE Except /\ UNCHANGED remote
    /\ UNCHANGED <<injArgs, injRest, injLocals, injHandles, buffers, written, modules, nObjects,
                   scanVars, uiVars>>

\* exit_code = DWORD(); GetExitCodeThread(h_thread, byref(exit_code)): the exit code
\* of a finished thread, STILL_ACTIVE for a running one; untouched when the call fails.
GetExitCodeThread(o) ==
    /\ inj_pc = "GetExitCodeThread"
    /\ \/ /\ o = "ok"
          /\ exit_code' = IF remote[h_thread].state = "finished"
                          THEN remote[h_thread].exit ELSE "still_active"
          /\ inj_pc' = "CloseHandle_thread"
          /\ UNCHANGED <<retval, last_error>>
       \/ /\ o = "fail"
          /\ inj_pc' = "CloseHandle_thread"
          /\ UNCHANGED <<exit_code, retval, last_error>>
       \/ /\ o = "raise"
          /\ Except
          /\ UNCHANGED exit_code
    /\ UNCHANGED <<injArgs, injRest, h_process, arg_address, h_thread, injHandles, injTarget,
                   nObjects, scanVars, uiVars>>

\* Cleanup: CloseHandle(h_thread)
CloseHandle_thread(o) ==
    /\ inj_pc = "CloseHandle_thread"
    /\ IF o = "ok"
       THEN /\ injHandles' = injHandles \ {h_thread}
            /\ inj_pc' = "VirtualFreeEx"
            /\ UNCHANGED <<retval, last_error>>
       ELSE Except /\ UNCHANGED injHandles
    /\ UNCHANGED <<injArgs, injRest, injLocals, injTarget, nObjects, scanVars, uiVars>>

\* Cleanup: VirtualFreeEx(h_process, arg_address, 0, MEM_RELEASE)
VirtualFreeEx(o) ==
    /\ inj_pc = "VirtualFreeEx"
    /\ IF o = "ok"
       THEN /\ buffers' = buffers \ {arg_address}
            /\ inj_pc' = "CloseHandle_process"
            /\ UNCHANGED <<retval, last_error>>
       ELSE Except /\ UNCHANGED buffers
    /\ UNCHANGED <<injArgs, injRest, injLocals, injHandles, written, remote, modules, nObjects,
                   scanVars, uiVars>>

\* Cleanup: CloseHandle(h_process); then the result from exit_code.value.
CloseHandle_process(o) ==
    /\ inj_pc = "CloseHandle_process"
    /\ IF o = "ok"
       THEN /\ injHandles' = injHandles \ {h_process}
            /\ IF exit_code = "zero"
               THEN Return(FALSE, "DLL injection failed - LoadLibrary returned NULL")
               ELSE Return(TRUE, "DLL injected successfully")
            /\ UNCHANGED last_error
       ELSE Except /\ UNCHANGED injHandles
    /\ UNCHANGED <<injArgs, injRest, injLocals, injTarget, nObjects, scanVars, uiVars>>

\* ------------------------------------------------------------ eject_dll
\* The names eject_dll is called with: the DLL that inject_dll loads, and another.
InjectedName == "dll"
ModuleNames == {InjectedName, "other"}

\* except Exception as e: return False, ...
EjectExcept == Return(FALSE, "Ejection error") /\ UNCHANGED last_error

eject_dll(pid, name) ==
    /\ inj_pc = "idle"
    /\ nInject < MaxInject
    /\ nInject' = nInject + 1
    /\ call' = "eject_dll"
    /\ process_id' = pid
    /\ dll_name' = name
    /\ h_process' = 0 /\ h_thread' = 0 /\ h_module' = NullBase
    /\ listed' = <<>>
    /\ inj_pc' = "E_OpenProcess" /\ retval' = <<>>
    /\ UNCHANGED <<dll_path, arg_address, exit_code, localModules, sameBase, last_error,
                   injHandles, injTarget, nObjects, scanVars, uiVars>>

E_OpenProcess(o) ==
    /\ inj_pc = "E_OpenProcess"
    /\ o = "ok" => process_id = "exists"
    /\ \/ /\ o = "ok"
          /\ h_process' = nObjects + 1
          /\ nObjects' = nObjects + 1
          /\ injHandles' = injHandles \cup {nObjects + 1}
          /\ inj_pc' = "E_GetModuleHandleW"
          /\ UNCHANGED <<retval, last_error>>
       \/ /\ o = "fail"
          /\ Return(FALSE, "Failed to open process")
          /\ UNCHANGED <<h_process, nObjects, injHandles, last_error>>
       \/ /\ o = "raise"
          /\ EjectExcept
          /\ UNCHANGED <<h_process, nObjects, injHandles>>
    /\ UNCHANGED <<injArgs, injRest, arg_address, h_thread, exit_code, injTarget, scanVars, uiVars>>

\* h_module = GetModuleHandleW(dll_name): the lookup is made in the calling process,
\* the injector's own.
E_GetModuleHandleW(o) ==
    /\ inj_pc = "E_GetModuleHandleW"
    /\ o = "ok" => dll_name \in localModules
    /\ o = "fail" => dll_name \notin localModules
    /\ \/ /\ o = "ok"
          /\ h_module' = LocalBase(dll_name)
          /\ inj_pc' = "E_GetProcAddress"
          /\ UNCHANGED <<retval, last_error, injHandles>>
       \/ /\ o = "fail"
          /\ injHandles' = injHandles \ {h_process}
          /\ Return(FALSE, "DLL not found in process")
          /\ UNCHANGED <<h_module, last_error>>
       \/ /\ o = "raise"
          /\ EjectExcept
          /\ UNCHANGED <<h_module, injHandles>>
    /\ UNCHANGED <<injArgs, listed, localModules, sameBase, injLocals, injTarget, nObjects,
                   scanVars, uiVars>>

\* GetModuleHandleW("kernel32.dll"), GetProcAddress(h_kernel32, b"FreeLibrary") and
\* the test of free_library_addr.
E_GetProcAddress(o) ==
    /\ inj_pc = "E_GetProcAddress"
    /\ \/ /\ o = "ok"
          /\ inj_pc' = "E_CreateRemoteThread"
          /\ UNCHANGED <<retval, last_error, injHandles>>
       \/ /\ o = "fail"
          /\ injHandles' = injHandles \ {h_process}
          /\ Return(FALSE, "Failed to get FreeLibrary address")
          /\ UNCHANGED last_error
       \/ /\ o = "raise"
          /\ EjectExcept
          /\ UNCHANGED injHandles
    /\ UNCHANGED <<injArgs, injRest, injLocals, injTarget, nObjects, scanVars, uiVars>>

\* CreateRemoteThread(h_process, ..., free_library_addr, h_module, ...)
E_CreateRemoteThread(o) ==
    /\ inj_pc = "E_CreateRemoteThread"
    /\ \/ /\ o = "ok"
          /\ h_thread' = nObjects + 1
          /\ nObjects' = nObjects + 1
          /\ injHandles' = injHandles \cup {nObjects + 1}
          /\ remote' = [h \in DOMAIN remote \cup {nObjects + 1} |->
                          IF h = nObjects + 1
                          THEN [kind |-> "free", state |-> "running", arg |-> h_module,
                                exit |-> "zero", atWait |-> "none"]
                          ELSE remote[h]]
          /\ inj_pc' = "E_WaitForSingleObject"
          /\ UNCHANGED <<retval, last_error>>
       \/ /\ o = "fail"
          /\ injHandles' = injHandles \ {h_process}
          /\ Return(FALSE, "Failed to create remote thread")
          /\ UNCHANGED <<h_thread, nObjects, remote, last_error>>
       \/ /\ o = "raise"
          /\ EjectExcept
          /\ UNCHANGED <<h_thread, nObjects, remote, injHandles>>
    /\ UNCHANGED <<injArgs, injRest, h_process, arg_address, exit_code, buffers, written,
                   modules, scanVars, uiVars>>

\* WaitForSingleObject(h_thread, 5000), its result not looked at.
E_WaitForSingleObject(o) ==
    /\ inj_pc = "E_WaitForSingleObject"
    /\ IF o = "ok"
       THEN /\ inj_pc' = "E_CloseHandle_thread"
            /\ remote' = [remote EXCEPT ![h_thread].atWait = remote[h_thread].state]
            /\ UNCHANGED <<retval, last_error>>
       ELSE EjectExcept /\ UNCHANGED remote
    /\ UNCHANGED <<injArgs, injRest, injLocals, injHandles, buffers, written, modules,
                   nObjects, scanVars, uiVars>>

\* Cleanup: CloseHandle(h_thread)
E_CloseHandle_thread(o) ==
    /\ inj_pc = "E_CloseHandle_thread"
    /\ IF o = "ok"
       THEN /\ injHandles' = injHandles \ {h_thread}
            /\ inj_pc' = "E_CloseHandle_process"
            /\ UNCHANGED <<retval, last_error>>
       ELSE EjectExcept /\ UNCHANGED injHandles
    /\ UNCHANGED <<injArgs, injRest, injLocals, injTarget, nObjects, scanVars, uiVars>>

\* Cleanup: CloseHandle(h_process); return True, "... ejected successfully"
E_CloseHandle_process(o) ==
    /\ inj_pc = "E_CloseHandle_process"
    /\ IF o = "ok"
       THEN /\ injHandles' = injHandles \ {h_process}
            /\ Return(TRUE, "DLL ejected successfully")
            /\ UNCHANGED last_error
       ELSE EjectExcept /\ UNCHANGED injHandles
    /\ UNCHANGED <<injArgs, injRest, injLocals, injTarget, nObjects, scanVars, uiVars>>

\* ------------------------------------------------------------ list_loaded_modules
\* list_loaded_modules without its try: an exception of psutil leaves the caller
\* without a list.
list_loaded_modules_NoTry(pid, o) ==
    /\ inj_pc = "idle"
    /\ o = "ok" => pid = "exists"
    /\ listed' = IF o = "ok"
                 THEN <<[names |-> modules, pid |-> pid, raised |-> FALSE]>>
                 ELSE <<>>
    /\ UNCHANGED <<inj_pc, injArgs, h_module, localModules, sameBase, injLocals, retval,
                   last_error, injHandles, injTarget, nObjects, scanVars, uiVars>>

\* psutil.Process(process_id).memory_maps(): the names of the .dll files mapped in
\* the process, or an exception (no such process, access denied), which gives [].
\* (listed keeps the list returned, with the process asked about and whether the
\* exception handler produced it.)
list_loaded_modules(pid, o) ==
    /\ inj_pc = "idle"
    /\ o = "ok" => pid = "exists"
    /\ IF o = "ok"
       THEN /\ listed' = <<[names |-> modules, pid |-> pid, raised |-> FALSE]>>
            /\ UNCHANGED last_error
       ELSE /\ listed' = <<[names |-> {}, pid |-> pid, raised |-> TRUE]>>
            /\ last_error' = "exception"
    /\ UNCHANGED <<inj_pc, injArgs, h_module, localModules, sameBase, injLocals, retval,
                   injHandles, injTarget, nObjects, scanVars, uiVars>>

\* ------------------------------------------------------------ the remote thread
\* A remote thread runs in the target and ends.  A loader thread, LoadLibraryA(arg):
\* with the module's handle ("module") if the buffer still holds the path and the
\* library loads, with NULL ("zero") otherwise.  A FreeLibrary(arg) thread: with a
\* non-zero value ("module") if arg is the base of a module loaded in the target,
\* which is unloaded, with 0 otherwise.
RemoteThreadRun(h, r) ==
    /\ h \in DOMAIN remote
    /\ remote[h].state = "running"
    /\ IF remote[h].kind = "load"
       THEN /\ r = "module" => remote[h].arg \in buffers \cap written
            /\ modules' = IF r = "module" THEN modules \cup {InjectedName} ELSE modules
       ELSE LET hit == {n \in modules : TargetBase(n) = remote[h].arg}
            IN  /\ r = "module" <=> hit # {}
                /\ modules' = modules \ hit
    /\ remote' = [remote EXCEPT ![h] = [@ EXCEPT !.state = "finished", !.exit = r]]
    /\ UNCHANGED <<inj_pc, injArgs, injRest, injLocals, retval, last_error, injHandles,
                   buffers, written, nObjects, scanVars, uiVars>>

\* ------------------------------------------------------------ initial states
\* The committed ranges the target may have: the hard-coded regions and the range
\* between them; the same without the second region; the first region committed
\* only in part.
Mappings ==
    [all  |-> {[base |-> 8, size |-> 48], [base |-> 64, size |-> 96]},
     hole |-> {[base |-> 8, size |-> 48], [base |-> 96, size |-> 64]},
     part |-> {[base |-> 8, size |-> 16], [base |-> 40, size |-> 16], [base |-> 64, size |-> 96]}]

\* The last slot of the first hard-coded region for a value of type t.
LastSlot(t) == Regions[1].base + Regions[1].size - Width(t)

\* The first address after the first hard-coded region (committed in every mapping).
Beyond == Regions[1].base + Regions[1].size

\* What the target holds when the scanner starts: the type selected in the UI, the
\* committed ranges, the addresses holding the value 100 of that type, and whether
\* the byte after each value is 1 rather than 0.
Scenarios ==
    {[t |-> t, map |-> "all", at |-> {16, 72}, dirty |-> FALSE] : t \in ValueTypes}
    \cup {[t |-> t, map |-> "all", at |-> {LastSlot(t)}, dirty |-> FALSE] : t \in ValueTypes}
    \cup {[t |-> t, map |-> "all", at |-> {16}, dirty |-> TRUE] : t \in {"Byte", "2 Bytes"}}
    \cup {[t |-> "4 Bytes", map |-> "all", at |-> {Beyond}, dirty |-> FALSE],
          [t |-> "4 Bytes", map |-> "part", at |-> {16}, dirty |-> FALSE],
          [t |-> "4 Bytes", map |-> "hole", at |-> {16, 104}, dirty |-> FALSE]}

\* The scenarios explored with overlapping operations.
ConcurrentScenarios ==
    {[t |-> "4 Bytes", map |-> "all", at |-> {16, 72}, dirty |-> FALSE]}

\* The scenarios explored with single values read and edited.
EditScenarios ==
    {[t |-> t, map |-> "all", at |-> {16, 72}, dirty |-> FALSE] : t \in ValueTypes}
    \cup {[t |-> "Byte", map |-> "all", at |-> {16}, dirty |-> TRUE]}

RECURSIVE Planted(_, _, _)
Planted(ps, t, dirty) ==
    IF ps = {} THEN << >>
    ELSE LET p == CHOOSE x \in ps : TRUE
             rest == Planted(ps \ {p}, t, dirty)
             bs == IF dirty THEN Pattern(100, t) \o <<1>> ELSE Pattern(100, t)
         IN  WriteAt(rest, p, bs)

\* MemoryScanner.__init__, and a target in one of the scenarios S.
ScanInit(S) ==
    /\ process = 0
    /\ process_handle = 0
    /\ lists = << <<>> >>
    /\ found_addresses = 1
    /\ is_scanning = FALSE
    /\ workers = <<>>
    /\ openHandles = {}
    /\ nAttach = 0
    /\ nWrites = 0
    /\ ret = <<>>
    /\ address_tree = <<>>
    /\ \E sc \in S :
          /\ value_type = sc.t
          /\ mapped = Mappings[sc.map]
          /\ plants = sc.at
          /\ mem = Planted(sc.at, sc.t, sc.dirty)

\* The DLLs in the injector's own process, and whether base addresses coincide.
InjEnv(L, B) == localModules \in L /\ sameBase \in B

\* DLLInjector.__init__, no call yet.
InjIdle ==
    /\ inj_pc = "idle"
    /\ dll_path = ""
    /\ process_id = ""
    /\ h_process = 0
    /\ arg_address = 0
    /\ h_thread = 0
    /\ exit_code = "zero"
    /\ retval = <<>>
    /\ last_error = ""
    /\ injHandles = {}
    /\ buffers = {}
    /\ written = {}
    /\ remote = << >>
    /\ modules = {}
    /\ nInject = 0
    /\ nObjects = 0
    /\ call = ""
    /\ dll_name = ""
    /\ h_module = NullBase
    /\ listed = <<>>

\* ------------------------------------------------------------ specifications
\* The scanner, every operation callable at any time (the UI disables no button
\* while a scan runs), and a target that changes its values.
Init == ScanInit(ConcurrentScenarios) /\ InjIdle /\ InjEnv({{}}, {FALSE})

ScanNext ==
    \/ \E ok \in BOOLEAN : attach_process(ok)
    \/ detach_process("ok")
    \/ \E text \in ScanTexts : first_scan(text)
    \/ \E text \in ScanTexts : next_scan(text)
    \/ stop_scan
    \/ WorkerStep

Next ==
    \/ ScanNext
    \/ detach_process("raise")
    \/ \E p \in 0..Beyond, v \in Values : TargetWrite(p, v)

Spec == Init /\ [][Next]_vars

\* The scanner with its worker threads scheduled fairly, a close_process that
\* succeeds and a target that leaves its values alone.
FairSpec == Init /\ [][ScanNext]_vars /\ WF_vars(WorkerStep)

\* The scanner driven by a caller that waits for the running scan to end before it
\* attaches, detaches or scans again, and a target that changes its values between
\* scans; every scenario.
SeqInit == ScanInit(Scenarios) /\ InjIdle /\ InjEnv({{}}, {FALSE})

SeqNext ==
    \/ RunningWorkers = {} /\ \E ok \in BOOLEAN : attach_process(ok)
    \/ RunningWorkers = {} /\ \E o \in CloseOutcomes : detach_process(o)
    \/ RunningWorkers = {} /\ \E text \in ScanTexts : first_scan(text)
    \/ RunningWorkers = {} /\ \E text \in ScanTexts : next_scan(text)
    \/ stop_scan
    \/ WorkerStep
    \/ RunningWorkers = {} /\ \E p \in 0..Beyond, v \in Values : TargetWrite(p, v)
    \/ RunningWorkers = {} /\ \E m \in UNION {Mappings[n] : n \in DOMAIN Mappings} : TargetFree(m)

SeqSpec == SeqInit /\ [][SeqNext]_vars

\* The same caller, who also reads and edits single values, with a target that
\* leaves its values alone; one scenario for each value type.
EditInit == ScanInit(EditScenarios) /\ InjIdle /\ InjEnv({{}}, {FALSE})

EditNext ==
    \/ RunningWorkers = {} /\ \E ok \in BOOLEAN : attach_process_ret(ok)
    \/ RunningWorkers = {} /\ \E o \in CloseOutcomes : detach_process(o)
    \/ RunningWorkers = {} /\ \E text \in Texts : first_scan_ret(text)
    \/ RunningWorkers = {} /\ \E text \in Texts : next_scan_ret(text)
    \/ WorkerStep
    \/ TargetExit
    \/ RunningWorkers = {} /\ \E a \in EditAddresses : get_address_value(a)
    \/ RunningWorkers = {} /\ \E a \in EditAddresses, text \in Texts : set_address_value(a, text)

EditSpec == EditInit /\ [][EditNext]_vars

\* The caller of SeqSpec at the UI's address list: found addresses are added to it
\* and edited through the edit dialog; the target can exit.
UiInit == ScanInit(EditScenarios) /\ InjIdle /\ InjEnv({{}}, {FALSE})

UiNext ==
    \/ RunningWorkers = {} /\ \E ok \in BOOLEAN : attach_process_ret(ok)
    \/ RunningWorkers = {} /\ \E o \in CloseOutcomes : detach_process(o)
    \/ RunningWorkers = {} /\ \E text \in ScanTexts : first_scan_ret(text)
    \/ RunningWorkers = {} /\ \E text \in ScanTexts : next_scan_ret(text)
    \/ WorkerStep
    \/ TargetExit
    \/ RunningWorkers = {} /\ \E idx \in 1..2 : add_to_address_list(idx)
    \/ RunningWorkers = {} /\ \E item \in 1..MaxWatch, text \in Texts : save_value(item, text)

UiSpec == UiInit /\ [][UiNext]_vars

\* The caller of SeqSpec scanning Float and Double values for NaN and for 100, with
\* a target that sets one of its values to NaN.
NanTexts == {"nan", "100"}

NanInit ==
    /\ ScanInit({sc \in EditScenarios : sc.t \in {"Float", "Double"}})
    /\ InjIdle
    /\ InjEnv({{}}, {FALSE})

NanNext ==
    \/ RunningWorkers = {} /\ \E ok \in BOOLEAN : attach_process(ok)
    \/ RunningWorkers = {} /\ \E o \in CloseOutcomes : detach_process(o)
    \/ RunningWorkers = {} /\ \E text \in NanTexts : first_scan(text)
    \/ RunningWorkers = {} /\ \E text \in NanTexts : next_scan(text)
    \/ WorkerStep
    \/ RunningWorkers = {} /\ \E p \in 0..Beyond : TargetWrite(p, NaN)

NanSpec == NanInit /\ [][NanNext]_vars

\* The injector.
InjInit ==
    /\ ScanInit(ConcurrentScenarios)
    /\ InjIdle
    /\ InjEnv(SUBSET {InjectedName}, BOOLEAN)

InjNext ==
    \/ \E pid \in PidKinds, path \in PathKinds : inject_dll(pid, path)
    \/ \E o \in Outcomes : OpenProcess(o)
    \/ \E o \in Outcomes : GetModuleHandleW(o)
    \/ \E o \in Outcomes : GetProcAddress(o)
    \/ Encode
    \/ \E o \in Outcomes : VirtualAllocEx(o)
    \/ \E o \in Outcomes : WriteProcessMemory(o)
    \/ \E o \in Outcomes : CreateRemoteThread(o)
    \/ \E o \in UncheckedOutcomes : WaitForSingleObject(o)
    \/ \E o \in Outcomes : GetExitCodeThread(o)
    \/ \E o \in UncheckedOutcomes : CloseHandle_thread(o)
    \/ \E o \in UncheckedOutcomes : VirtualFreeEx(o)
    \/ \E o \in UncheckedOutcomes : CloseHandle_process(o)
    \/ \E pid \in PidKinds, name \in ModuleNames : eject_dll(pid, name)
    \/ \E o \in Outcomes : E_OpenProcess(o)
    \/ \E o \in Outcomes : E_GetModuleHandleW(o)
    \/ \E o \in Outcomes : E_GetProcAddress(o)
    \/ \E o \in Outcomes : E_CreateRemoteThread(o)
    \/ \E o \in UncheckedOutcomes : E_WaitForSingleObject(o)
    \/ \E o \in UncheckedOutcomes : E_CloseHandle_thread(o)
    \/ \E o \in UncheckedOutcomes : E_CloseHandle_process(o)
    \/ \E pid \in PidKinds, o \in UncheckedOutcomes : list_loaded_modules(pid, o)
    \/ \E h \in ObjectIds, r \in {"module", "zero"} : RemoteThreadRun(h, r)

InjSpec == InjInit /\ [][InjNext]_vars

\* ------------------------------------------------------------ properties
Range(s) == {s[i] : i \in 1..Len(s)}

StrictlyAscending(s) == \A i \in 1..(Len(s) - 1) : s[i] < s[i + 1]

Done(w) == w.pc = "done"

\* The worker went through its whole loop: it did not leave it on the flag.
Completed(w) == w.pc = "done" /\ ~w.broke

\* The worker ran alone, read through an open handle only, and the target has not
\* written since the scan was requested: memory is now what the worker saw.
Undisturbed(w) == w.solo /\ ~w.closedRead /\ w.writes = nWrites

\* C1: at most one scan worker is in flight at any time; a scan requested while an
\* earlier scan's worker is still running starts no second worker.
C1_AtMostOneWorker == Cardinality(RunningWorkers) <= 1

\* C2: detach_process waits for a running worker before the handle is released: no
\* worker is running while the scanner's handle is closed or cleared, and no worker
\* has read through such a handle.
C2_NoWorkerOutlivesHandle ==
    \A k \in 1..Len(workers) :
        /\ ~workers[k].closedRead
        /\ Running(workers[k]) => HandleOpen

\* C3: the result of a next_scan is a subset of R, the stored found_addresses at the
\* time of the call, whether the scan completed or was cancelled.
C3_NextScanNarrows ==
    \A k \in 1..Len(workers) :
        (workers[k].kind = "next" /\ Done(workers[k]))
            => Range(workers[k].result) \subseteq Range(workers[k].R)

\* The hard-coded regions that can be read whole.
ReadableRegions == {j \in 1..Len(Regions) : InMapped(Regions[j].base, Regions[j].size)}

\* The addresses base + k*width, k*width + width <= size, of the readable scanned
\* regions whose width bytes are the encoded target.
AlignedMatches(v, t) ==
    {a \in UNION {{Regions[j].base + k * Width(t) :
                       k \in 0..((Regions[j].size \div Width(t)) - 1)} : j \in ReadableRegions} :
        BytesAt(a, Width(t)) = Pattern(v, t)}

\* C4: after a first_scan that ran to completion, found_addresses is exactly the set
\* of aligned addresses of the readable scanned regions whose bytes equal the encoded
\* target, the last aligned slot of a region included.
C4_FirstScanExact ==
    \A k \in 1..Len(workers) :
        (workers[k].kind = "first" /\ Completed(workers[k]) /\ Undisturbed(workers[k]))
            => Range(workers[k].result) = AlignedMatches(workers[k].value, workers[k].vtype)

\* The value at a decoded with the type's own width: <<>> if it cannot be read.
OwnValue(a, t) ==
    IF ~InMapped(a, Width(t)) THEN <<>>
    ELSE CASE t = "Float" -> <<DecodeFloat(BytesAt(a, 4))>>
           [] t = "Double" -> <<DecodeDouble(BytesAt(a, 8))>>
           [] OTHER -> <<DecodeOwn(BytesAt(a, Width(t)), t)>>

KeepsOwn(R, v, t) ==
    LET keep(a) == OwnValue(a, t) = <<Num(v)>>
    IN  SelectSeq(R, keep)

\* C5: for every value type, a next_scan that ran to completion leaves found_addresses
\* equal to exactly the previous addresses whose current value, decoded with the
\* type's own width, equals the target.
C5_NextScanOwnWidth ==
    \A k \in 1..Len(workers) :
        (workers[k].kind = "next" /\ Completed(workers[k]) /\ Undisturbed(workers[k]))
            => workers[k].result = KeepsOwn(workers[k].R, workers[k].value, workers[k].vtype)

\* The target holds the Int32 v at the aligned address a of a committed range.
HoldsInt32(a, v) == a % 4 = 0 /\ InMapped(a, 4) /\ BytesAt(a, 4) = IntBytes(v, 4)

\* C6: if the target holds the Int32 100 at an aligned address A of any committed,
\* readable range, a completed first scan for 100 contains A; if the target then
\* changes only that value to 99, a completed next scan for 99 yields exactly A.
C6_FindsThenNarrows ==
    \A a \in plants :
        /\ \A k \in 1..Len(workers) :
              (/\ workers[k].kind = "first" /\ Completed(workers[k])
               /\ Undisturbed(workers[k])
               /\ workers[k].vtype = "4 Bytes" /\ workers[k].value = 100
               /\ HoldsInt32(a, 100))
                  => a \in Range(workers[k].result)
        /\ \A k \in 2..Len(workers) :
              (/\ workers[k - 1].kind = "first" /\ Completed(workers[k - 1])
               /\ workers[k - 1].solo /\ ~workers[k - 1].closedRead
               /\ workers[k - 1].vtype = "4 Bytes" /\ workers[k - 1].value = 100
               /\ workers[k - 1].writes = 0
               /\ workers[k].kind = "next" /\ Completed(workers[k])
               /\ Undisturbed(workers[k])
               /\ workers[k].vtype = "4 Bytes" /\ workers[k].value = 99
               /\ workers[k].writes = 1
               /\ HoldsInt32(a, 99))
                  => workers[k].result = <<a>>

\* The scans that have put their addresses into found_addresses: the first scans
\* and the finished next scans.
Producers == {k \in 1..Len(workers) : workers[k].kind = "first" \/ Done(workers[k])}

\* C7: in every reachable state found_addresses is strictly ascending and holds only
\* addresses produced by the most recent scan.
C7_AscendingFromLastScan ==
    /\ StrictlyAscending(Contents)
    /\ IF Producers = {} THEN Contents = <<>>
       ELSE Range(Contents) \subseteq
                Range(workers[CHOOSE k \in Producers : \A j \in Producers : j <= k].mine)

\* C8: a scan cancelled by stop_scan keeps its partial results: a first scan's
\* recorded matches remain in found_addresses, and a next scan leaves exactly the
\* matching addresses among those it checked.
C8_CancelKeepsPartial ==
    \A k \in 1..Len(workers) :
        (Done(workers[k]) /\ workers[k].broke /\ workers[k].stopped)
            => IF workers[k].kind = "first"
               THEN Range(workers[k].mine) \subseteq Range(workers[k].result)
               ELSE workers[k].result = workers[k].mine

\* stop_scan was called while a scan was running, and that scan's worker still runs.
StopPending == \E k \in 1..Len(workers) : Running(workers[k]) /\ workers[k].stopped

Idle == RunningWorkers = {} /\ ~is_scanning

\* process and process_handle are both set or both None.
HandleConsistent == (process = 0) = (process_handle = 0)

\* C9: after stop_scan is called while a scan is running, the scanner eventually is
\* idle (no worker running, is_scanning false), with process and process_handle both
\* set or both None.
C9_StopLeadsToIdle == StopPending ~> (Idle /\ HandleConsistent)

\* C9, reached: a worker that stop_scan cancelled has ended, and the scanner is idle
\* with process and process_handle both set or both None.
C9_Witness ==
    /\ Idle /\ HandleConsistent
    /\ \E k \in 1..Len(workers) :
          Done(workers[k]) /\ workers[k].stopped /\ workers[k].broke

\* C10: whenever inject_dll has returned, the buffer it allocated in the target has
\* been freed and the thread handle it created has been closed.
C10_ReleasedOnReturn ==
    (call = "inject_dll" /\ inj_pc = "idle" /\ retval # <<>>)
        => /\ arg_address # 0 => arg_address \notin buffers
           /\ h_thread # 0 => h_thread \notin injHandles

\* C11: inject_dll with a path that does not exist or lacks the .dll extension fails
\* with the invalid-path result before a process handle is opened, target memory is
\* allocated or a remote thread is created.
C11_BadPathFailsFirst ==
    (call = "inject_dll" /\ dll_path \in {"missing", "not_dll"})
        => /\ inj_pc = "idle"
           /\ retval = <<[success |-> FALSE,
                          message |-> IF dll_path = "missing" THEN "DLL not found"
                                      ELSE "File must be a .dll"]>>
           /\ h_process = 0 /\ arg_address = 0 /\ h_thread = 0

\* C11, reached: inject_dll has returned for a file that is not a .dll, after an
\* earlier call that got as far as opening handles.
C11_Witness ==
    /\ call = "inject_dll" /\ dll_path = "not_dll" /\ inj_pc = "idle" /\ retval # <<>>
    /\ nObjects > 0

\* inject_dll has returned from a call that created a remote thread.
ReturnedWithThread ==
    call = "inject_dll" /\ inj_pc = "idle" /\ retval # <<>> /\ h_thread # 0

\* C12: if the remote loader thread had not finished when the wait ended, inject_dll
\* reports failure; it reports success only for a remote thread that has finished
\* and returned a non-zero module base.
C12_TimeoutIsFailure ==
    ReturnedWithThread
        => /\ remote[h_thread].atWait = "running" => ~retval[1].success
           /\ retval[1].success
                 => remote[h_thread].state = "finished" /\ remote[h_thread].exit = "module"

\* The buffer, the thread handle and the process handle of the last call are released.
AllReleased ==
    /\ arg_address \notin buffers
    /\ h_thread \notin injHandles
    /\ h_process \notin injHandles

\* C13: when the remote loader thread has finished, within the wait, with a zero
\* return value, inject_dll reports the load failure, having released the buffer, the thread
\* handle and the process handle.
C13_NullReturnIsLoadFailure ==
    (/\ ReturnedWithThread
     /\ remote[h_thread].atWait = "finished" /\ remote[h_thread].exit = "zero")
        => /\ retval = <<[success |-> FALSE,
                          message |-> "DLL injection failed - LoadLibrary returned NULL"]>>
           /\ AllReleased


\* eject_dll has returned.
EjectReturned == call = "eject_dll" /\ inj_pc = "idle" /\ retval # <<>>

\* C14: eject_dll reports success only if the remote FreeLibrary thread had finished
\* when the wait ended and returned a non-zero result; a zero result, or a thread
\* still running when the wait expires, is reported as failure.
C14_EjectSuccessMeansFreed ==
    (EjectReturned /\ retval[1].success)
        => /\ h_thread \in DOMAIN remote
           /\ remote[h_thread].atWait = "finished"
           /\ remote[h_thread].exit = "module"

\* eject_dll's module-not-found result.
NotFound == retval = <<[success |-> FALSE, message |-> "DLL not found in process"]>>

\* C15: eject_dll's lookup of dll_name goes on to the remote thread only if a module
\* of that name is loaded in the target, and gives the module-not-found result only
\* if none is; the argument of the remote thread it creates for a module loaded in
\* the target is that module's base address in the target.
C15_LookupInTarget ==
    [][/\ inj_pc = "E_GetModuleHandleW"
            => /\ inj_pc' = "E_GetProcAddress" => dll_name \in modules
               /\ NotFound' => dll_name \notin modules
       /\ (inj_pc = "E_CreateRemoteThread" /\ h_thread' # h_thread /\ dll_name \in modules)
            => remote'[h_thread'].arg = TargetBase(dll_name)]_vars

\* The call c has returned success and list_loaded_modules has since been called on
\* the same process and has returned its list without an exception.
ListedAfter(c) ==
    /\ call = c /\ inj_pc = "idle" /\ retval # <<>> /\ retval[1].success
    /\ listed # <<>> /\ listed[1].pid = process_id /\ ~listed[1].raised

\* C16: a list_loaded_modules that follows a successful inject_dll includes the
\* injected module's name; one that follows a successful eject_dll of that module
\* does not include it.
C16_ListingFollowsResult ==
    /\ ListedAfter("inject_dll") => InjectedName \in listed[1].names
    /\ (ListedAfter("eject_dll") /\ dll_name = InjectedName)
            => InjectedName \notin listed[1].names

\* A scan request, and a read or an edit of a single value, as steps.
ScanOp == \E text \in Texts : first_scan_ret(text) \/ next_scan_ret(text)
EditOp ==
    \/ \E a \in EditAddresses : get_address_value(a)
    \/ \E a \in EditAddresses, text \in Texts : set_address_value(a, text)

\* What every engine operation leaves alone when it fails for want of a process.
NothingDone ==
    /\ workers' = workers
    /\ mem' = mem
    /\ found_addresses' = found_addresses /\ lists' = lists
    /\ is_scanning' = is_scanning

\* C17: with no process attached, first_scan, next_scan, get_address_value and
\* set_address_value start no worker, change nothing in the target, leave
\* found_addresses and is_scanning as they were, and hand back a failure value
\* (None, False) without raising.
C17_NotAttachedFails ==
    [][/\ (process = 0 /\ ScanOp) => NothingDone
       /\ (process = 0 /\ EditOp)
            => /\ NothingDone
               /\ ~ret'[1].raised /\ ~ret'[1].ok /\ ret'[1].value = <<>>]_vars

\* C18: a MemoryScanner has at most one open OS process handle at any time; an
\* attach_process made while attached does not leave the earlier handle open.
C18_AtMostOneHandle == Cardinality(openHandles) <= 1

\* C19: when attach_process succeeds, the stored scan results are empty afterwards,
\* so that a next_scan never goes through addresses found in a process attached
\* earlier.
C19_ClearedOnAttach ==
    [][(process' # process /\ process' # 0) => lists'[found_addresses'] = <<>>]_vars

\* A call of detach_process, as a step.
Detach == \E o \in CloseOutcomes : detach_process(o)

\* C20: detach_process, from any state, ends with process and process_handle both
\* None whatever close_process does, and no exception leaves it; called when
\* already detached it changes nothing, so that calling it again yields the same
\* state; and it closes no handle but the one the scanner held, which a repeated
\* call therefore does not close again.
C20_DetachIdempotent ==
    [][Detach => /\ process' = 0 /\ process_handle' = 0
                 /\ ret' = ret
                 /\ process = 0 => UNCHANGED vars
                 /\ openHandles' \subseteq openHandles
                 /\ openHandles \ openHandles' \subseteq {process_handle}]_vars

\* detach_process has closed one handle and has swallowed the failure to close
\* another: the scanner is detached, one of its two handles is still open.
C20_Witness ==
    /\ process = 0 /\ process_handle = 0
    /\ nAttach = MaxAttach
    /\ Cardinality(openHandles) = 1

\* C21: attach_process for a target that does not exist hands back False, no
\* exception leaves it, and process, process_handle and the open handles are what
\* they were before the call.
C21_FailedAttachKeepsState ==
    [][attach_process_ret(FALSE)
          => /\ ~ret'[1].raised /\ ~ret'[1].ok
             /\ process' = process /\ process_handle' = process_handle
             /\ openHandles' = openHandles]_vars

\* attach_process has failed on a scanner that was attached, and still is.
C21_Witness ==
    /\ ret = Outcome("attach_process", FALSE, FALSE, <<>>)
    /\ process # 0 /\ process_handle = process /\ process \in openHandles

\* What the caller of a scan has when its worker is done: the addresses in the list
\* it was handed and the progress values its callback received.
Reported(w) == [result |-> w.result, calls |-> w.calls]

\* C22: a first_scan whose value text cannot be parsed as the requested type hands
\* its caller an outcome that differs from the outcome of a first_scan of a
\* well-formed value that ran to its end and found no match.
C22_InvalidTextDistinguishable ==
    \A k1, k2 \in 1..Len(workers) :
        LET w1 == workers[k1]
            w2 == workers[k2]
        IN  (/\ w1.kind = "first" /\ Completed(w1) /\ ~w1.parsed
             /\ w2.kind = "first" /\ Completed(w2) /\ w2.parsed
             /\ PackOK(w2.value, w2.vtype) /\ w2.result = <<>>)
                => Reported(w1) # Reported(w2)

OccursNowhere(v, t) ==
    \A j \in 1..Len(Regions) :
        \A a \in Regions[j].base..(Regions[j].base + Regions[j].size - 1) :
            BytesAt(a, Width(t)) # Pattern(v, t)

\* The last progress value the worker passed to the callback (-1: none).
LastCall(w) == IF w.calls = <<>> THEN -1 ELSE w.calls[Len(w.calls)]

\* C24: when the worker of a first_scan for a well-formed value that occurs nowhere
\* in the scanned memory ends after its whole loop, found_addresses is empty,
\* is_scanning is False, the callback has been called with progress 100 and count
\* 0, and nothing else has been handed to the caller.
C24_NoMatchCompletes ==
    [][\A k \in 1..MaxScans :
          (/\ FirstFinally(k)
           /\ workers[k].parsed /\ PackOK(workers[k].value, workers[k].vtype)
           /\ OccursNowhere(workers[k].value, workers[k].vtype)
           /\ ~workers[k].broke)
             => /\ Contents' = <<>> /\ workers'[k].result = <<>>
                /\ ~is_scanning'
                /\ LastCall(workers'[k]) = 100
                /\ ret' = ret]_vars

\* A first_scan for a value that is nowhere in memory has read all four regions and
\* ended.
C24_Witness ==
    \E k \in 1..Len(workers) :
        /\ workers[k].kind = "first" /\ Completed(workers[k])
        /\ workers[k].parsed /\ PackOK(workers[k].value, workers[k].vtype)
        /\ OccursNowhere(workers[k].value, workers[k].vtype)
        /\ workers[k].calls = <<25, 50, 75, 100, 100>>
        /\ workers[k].result = <<>> /\ Contents = <<>> /\ ~is_scanning

\* The number of bytes next_scan's worker reads at an address.
ReadWidth(t) == IF t = "Double" THEN 8 ELSE 4

\* The address lies in the region.
InRegion(a, rg) == a >= rg.base /\ a < rg.base + rg.size

\* C25: a region first_scan cannot read, or an address next_scan cannot read, adds
\* nothing to the result and does not end the scan: when the worker ends after its
\* whole loop, the result has the matches of every readable region (those before
\* the last slot, which the search loop reaches) and every previous address that
\* can be read and holds the target, wherever the unreadable ones lie.
C25_ReadFailureSkipped ==
    [][\A k \in 1..MaxScans :
          /\ (/\ FirstFinally(k) /\ ~workers[k].broke
              /\ workers[k].parsed /\ PackOK(workers[k].value, workers[k].vtype))
                => \A j \in 1..Len(Regions) :
                      LET rg == Regions[j]
                          t == workers[k].vtype
                          res == Range(workers'[k].result)
                      IN  IF CanRead(rg.base, rg.size)
                          THEN \A a \in rg.base..(rg.base + rg.size - 1) :
                                  (/\ (a - rg.base) % Width(t) = 0
                                   /\ a + Width(t) < rg.base + rg.size
                                   /\ BytesAt(a, Width(t)) = Pattern(workers[k].value, t))
                                     => a \in res
                          ELSE \A a \in res : ~InRegion(a, rg)
          /\ (NextStore(k) /\ ~workers[k].broke /\ workers[k].parsed)
                => \A a \in Range(workers[k].R) :
                      LET t == workers[k].vtype
                          res == Range(workers'[k].result)
                      IN  IF CanRead(a, ReadWidth(t))
                          THEN StillMatches(a, workers[k].value, t) => a \in res
                          ELSE a \notin res]_vars

\* A first_scan has passed over an unreadable region and reported a match of the
\* region behind it; a next_scan has passed over an address that could not be read
\* and kept the address behind it.
C25_Witness ==
    /\ Len(workers) = 2
    /\ workers[1].kind = "first" /\ Completed(workers[1])
    /\ ~InMapped(Regions[2].base, Regions[2].size)
    /\ \E a \in Range(workers[1].result) : InRegion(a, Regions[3])
    /\ workers[2].kind = "next" /\ Completed(workers[2])
    /\ \E i, j \in 1..Len(workers[2].R) :
          /\ i < j
          /\ ~InMapped(workers[2].R[i], ReadWidth(workers[2].vtype))
          /\ workers[2].R[j] \in Range(workers[2].result)

\* C26: a scan worker that read after the target had exited does not end the way a
\* completed scan ends, with the callback called with progress 100, is_scanning
\* reset and nothing else handed to the caller.
C26_ExitAbortsScan ==
    [][\A k \in 1..MaxScans :
          ((FirstFinally(k) \/ NextStore(k)) /\ workers[k].goneRead /\ ~workers[k].broke)
             => ~(LastCall(workers'[k]) = 100 /\ ~is_scanning' /\ ret' = ret)]_vars

\* The scanner holds an open handle of a target that is alive.
Attached == process # 0 /\ HandleOpen /\ mapped # {}

\* C27: for every value type and every value the type can hold, a get_address_value
\* that follows a successful set_address_value of the same address, with the scanner
\* still attached and nothing written in between, returns the value that was set.
C27_SetThenGet ==
    [][\A a \in EditAddresses :
          (/\ get_address_value(a)
           /\ Attached
           /\ ret # <<>> /\ ret[1].op = "set_address_value" /\ ret[1].ok /\ ret[1].at = a
           /\ PackOK(Parse(ret[1].text)[1], value_type))
             => ret'[1].value = <<Num(Parse(ret[1].text)[1])>>]_vars

\* get_address_value has returned the value 99 of a Float that set_address_value
\* had stored.
C27_Witness ==
    /\ value_type = "Float"
    /\ ret = Outcome("get_address_value", FALSE, FALSE, <<Num(99)>>)
    /\ BytesAt(16, 4) = FloatBytes(99)

\* C28: an edit of a row of the address list leaves the row's address and type as
\* they were; the row shows the new text exactly when set_address_value returned
\* True, and then the target holds the bytes of the new value at the address; when
\* set_address_value returned False or raised (text that cannot be parsed), the
\* value the row shows and the target's memory are unchanged.
C28_RowFollowsWrite ==
    [][\A item \in 1..MaxWatch, text \in Texts :
          save_value(item, text)
             => LET old == address_tree[item]
                    new == address_tree'[item]
                IN  /\ Len(address_tree') = Len(address_tree)
                    /\ new.address = old.address /\ new.type = old.type
                    /\ IF ~ret'[1].raised /\ ret'[1].ok
                       THEN /\ new.value = Shown(text, <<>>)
                            /\ \E v \in {99, 100, 300} :
                                  /\ Parse(text) = <<v>>
                                  /\ mem'[old.address] = WrittenBytes(v, old.type)[1]
                       ELSE /\ new.value = old.value
                            /\ mem' = mem]_vars

\* A row shows 99 from an edit that succeeded, and an edit to 100 made after the
\* target exited has failed and left it so.
C28_Witness ==
    /\ Len(address_tree) = 1
    /\ address_tree[1].value = Shown("99", <<>>)
    /\ ret = SetOutcome(FALSE, FALSE, address_tree[1].address, "100")
    /\ BytesAt(address_tree[1].address, 1) = <<99>>

\* C29: set_address_value called with text that cannot be parsed as the requested
\* type returns False, raises nothing and leaves the target's memory as it was.
C29_BadTextReturnsFailure ==
    [][\A a \in EditAddresses, text \in Texts :
          (set_address_value(a, text) /\ Parse(text) = <<>>)
             => ~ret'[1].raised /\ ~ret'[1].ok /\ mem' = mem]_vars

\* C30: an integer that the requested integer type cannot hold is rejected: a
\* set_address_value of it returns no success and writes nothing, and the worker of
\* a first_scan for it does not end as a scan without matches ends, with an empty
\* result, the callback called with progress 100 and nothing else handed to the
\* caller.
C30_OutOfRangeRejected ==
    [][/\ \A a \in EditAddresses, text \in Texts :
            (/\ set_address_value(a, text)
             /\ Parse(text) # <<>> /\ ~PackOK(Parse(text)[1], value_type))
               => ~ret'[1].ok /\ mem' = mem
       /\ \A k \in 1..MaxScans :
            (/\ FirstFinally(k)
             /\ workers[k].parsed /\ ~PackOK(workers[k].value, workers[k].vtype))
               => ~(/\ workers'[k].result = <<>>
                    /\ LastCall(workers'[k]) = 100
                    /\ ret' = ret)]_vars

\* The value the bytes b of the type's own width stand for.
OwnDecode(b, t) ==
    CASE t = "Float" -> DecodeFloat(b)
      [] t = "Double" -> DecodeDouble(b)
      [] OTHER -> DecodeOwn(b, t)

\* C31: a set_address_value of a value the type can hold changes no byte of the
\* target outside a .. a + width(type) - 1, and a get_address_value that reads a
\* value returns what the width(type) bytes at the address stand for.
C31_OneWidthPerType ==
    [][\A a \in EditAddresses :
          /\ \A text \in Texts :
                (/\ set_address_value(a, text)
                 /\ Parse(text) # <<>> /\ PackOK(Parse(text)[1], value_type))
                   => \A x \in (DOMAIN mem) \cup (DOMAIN mem') :
                         (x < a \/ x >= a + Width(value_type))
                            => (IF x \in DOMAIN mem' THEN mem'[x] ELSE 0) = ByteAt(x)
          /\ (get_address_value(a) /\ ret'[1].value # <<>>)
                => ret'[1].value[1] = OwnDecode(BytesAt(a, Width(value_type)), value_type)]_vars

\* C32: a first_scan or next_scan whose target value is NaN records no address and
\* ends with an empty result, whatever the target's memory holds.
C32_NaNNeverMatches ==
    \A k \in 1..Len(workers) :
        (/\ Done(workers[k])
         /\ workers[k].vtype \in {"Float", "Double"}
         /\ workers[k].parsed /\ workers[k].value = NaN)
           => workers[k].mine = <<>> /\ workers[k].result = <<>>

\* C33: list_loaded_modules can be called whenever the injector is between calls,
\* whatever has happened before; every call returns a list; the list is empty when
\* the process does not exist or the enumeration is refused; and the call changes
\* nothing of the target or of the injector except last_error.
C33_ListingNeverRaises ==
    /\ [](inj_pc = "idle" =>
            \A pid \in PidKinds : ENABLED (\E o \in UncheckedOutcomes :
                                              list_loaded_modules(pid, o)))
    /\ [][\A pid \in PidKinds, o \in UncheckedOutcomes :
             list_loaded_modules(pid, o) =>
                /\ listed' # <<>>
                /\ (pid = "none" \/ o = "raise") => listed'[1].names = {}
                /\ UNCHANGED <<inj_pc, injArgs, h_module, localModules, sameBase,
                               injLocals, retval, injHandles, injTarget, nObjects,
                               scanVars>>]_vars

\* A refused enumeration of a process in which the injected module is loaded has
\* returned the empty list.
C33_Witness ==
    /\ listed # <<>> /\ listed[1].raised /\ listed[1].names = {}
    /\ listed[1].pid = "exists"
    /\ InjectedName \in modules
    /\ last_error = "exception"

\* The last scan request returned a list, nothing has been returned since, and the
\* worker it started has finished.
ReturnedScanDone(kind) ==
    /\ ret # <<>> /\ ret[1].op = kind
    /\ ret[1].value[1].list # 0
    /\ workers # <<>> /\ Done(workers[Len(workers)])

\* C34: once the worker of a scan has finished, the list that first_scan returned,
\* and the list that next_scan returned, hold the found_addresses the scan ended with.
C34_ReturnedListIsResult ==
    \A kind \in {"first_scan", "next_scan"} :
        ReturnedScanDone(kind)
            => lists[ret[1].value[1].list] = workers[Len(workers)].result

\* C35: a worker that was running when stop_scan was called starts no further
\* region (first_scan) or address (next_scan), whatever is invoked afterwards.
C35_StoppedWorkerStartsNothing ==
    [][\A k \in 1..Len(workers) :
          workers[k].stopped => workers'[k].i = workers[k].i]_vars

\* C36: a worker leaves its loop before the end of its regions or addresses only if
\* stop_scan was called while it ran; the end of another scan makes no worker stop.
C36_OnlyStopScanCancels ==
    \A k \in 1..Len(workers) : workers[k].broke => workers[k].stopped

\* The target has neither written a value nor freed a range since the scan of
\* worker w was requested, and w read through an open handle.
MemoryUnchangedSince(w) ==
    /\ nWrites = w.writes
    /\ mapped \in {Mappings[n] : n \in DOMAIN Mappings}
    /\ ~w.closedRead

\* C37: a completed next_scan for the value and type of the completed first_scan
\* before it, with the target's memory unchanged since that first_scan was
\* requested, ends with the found_addresses the first_scan ended with.
C37_NextAgreesWithFirst ==
    \A k \in 1..(Len(workers) - 1) :
        (/\ workers[k].kind = "first" /\ workers[k + 1].kind = "next"
         /\ Completed(workers[k]) /\ Completed(workers[k + 1])
         /\ workers[k + 1].value = workers[k].value
         /\ workers[k + 1].vtype = workers[k].vtype
         /\ workers[k].parsed /\ workers[k + 1].parsed
         /\ MemoryUnchangedSince(workers[k]) /\ ~workers[k + 1].closedRead)
            => workers[k + 1].result = workers[k].result

\* C38: the path buffer of an inject_dll is allocated as long as the remote loader
\* thread that was given it as argument is running.
C38_BufferOutlivesLoader ==
    \A h \in DOMAIN remote :
        (remote[h].kind = "load" /\ remote[h].state = "running")
            => remote[h].arg \in buffers

\* C39: when inject_dll or eject_dll has returned, the process handle the call
\* opened is closed, whichever way the call ended.
C39_ProcessHandleClosed ==
    (inj_pc = "idle" /\ retval # <<>> /\ h_process # 0) => h_process \notin injHandles

====
